---- MODULE Spec2Model ----
(***************************************************************************)
(* Model of src/server.js: the palm-reading service.  The file holds the   *)
(* program twice; lines 1-85 repeat lines 87-167 and 376-379 word for      *)
(* word, and the definitions follow the full text, lines 87-379.           *)
(* Startup loads the model and then listens; a request is either           *)
(* a LINE webhook delivery (POST /line-webhook, a batch of events handled  *)
(* one after the other), a standalone POST /analyze-palm or a status call  *)
(* (GET /, GET /health).  Handlers run                                     *)
(* to completion between their await points; each await point is one step  *)
(* of the model, and the outcome of the awaited call (fetch, sharp,        *)
(* predict, ...) is the input of that step.                                *)
(***************************************************************************)
EXTENDS Integers, Sequences, FiniteSets, TLC

VARIABLES boot, listening, model, loaded, loadCalls, req

vars == <<boot, listening, model, loaded, loadCalls, req>>

(***************************************************************************)
(* Bounds of the model.                                                    *)
(***************************************************************************)
\* events in the events array of one webhook delivery
MaxBatch == 2
\* scores are the grid points k / ScoreDen, k \in 0..ScoreDen
ScoreDen == 8

\* the requests (webhook deliveries, /analyze-palm or status calls) in flight
\* at once: two, so that the steps of one interleave with those of another
Requests == {1, 2}
Scores == 0..ScoreDen

(***************************************************************************)
(* Pure helpers.                                                           *)
(***************************************************************************)
Max(a, b) == IF a >= b THEN a ELSE b

\* Math.round of the rational num/den (den > 0, num >= 0): the nearest
\* integer, a half rounding up.
MathRound(num, den) == (2 * num + den) \div (2 * den)

\* a comparison that lets the tie through: >= for >
AtLeastHalf(k) == 2 * k >= ScoreDen

\* prediction[0] > 0.5 for the score k / ScoreDen
AboveHalf(k) == 2 * k > ScoreDen

\* const hand = prediction[0] > 0.5 ? 'right' : 'left'
handEn(k) == IF AboveHalf(k) THEN "right" ELSE "left"

\* const handJa = prediction[0] > 0.5 ? '右手' : '左手'
handJa(k) == IF AboveHalf(k) THEN "migite" ELSE "hidarite"

\* Math.round(Math.max(prediction[0], 1 - prediction[0]) * 100)
confidence(k) == MathRound(100 * Max(k, ScoreDen - k), ScoreDen)

\* readings[hand] || 'Great energy detected in your palm.'
generateReading(hand) ==
    CASE hand = "left"  -> "Your left hand reveals inner potential and creativity."
      [] hand = "right" -> "Your right hand shows drive and determination."
      [] OTHER          -> "Great energy detected in your palm."

NoData == [success |-> FALSE, hand |-> "", handEn |-> "", confidence |-> 0,
           palmReading |-> ""]

\* the palmData / response object built from prediction[0] = k / ScoreDen
palmData(k) ==
    [success |-> TRUE, hand |-> handJa(k), handEn |-> handEn(k),
     confidence |-> confidence(k), palmReading |-> generateReading(handEn(k))]

(***************************************************************************)
(* Message texts.  A text is a record so that all texts are comparable:    *)
(* kind names the template, the other fields are what is interpolated.     *)
(***************************************************************************)
Msg(kind, hand, reading, conf) ==
    [kind |-> kind, hand |-> hand, reading |-> reading, confidence |-> conf]

NoMsg == Msg("none", "", "", 0)
\* return value undefined (a property that does not exist was read)
Undefined == Msg("undefined", "", "", 0)
\* the fixed 'analysis failed, please retake the photo' text of the catch block
FailureMessage == Msg("failure", "", "", 0)
GreetingMessage == Msg("greeting", "", "", 0)
HelpMessage == Msg("help", "", "", 0)
OtherMessage == Msg("other", "", "", 0)
\* result.choices[0].message.content: the text the service generated for the
\* prompt, which interpolates hand, confidence and palmReading
GeneratedText(pd) == Msg("generated", pd.hand, pd.palmReading, pd.confidence)
\* the template of the catch block of getChatGPTFortune
FallbackText(pd) == Msg("fallback", pd.hand, pd.palmReading, pd.confidence)

(***************************************************************************)
(* Webhook events.  The body of a delivery is whatever JSON was posted, so *)
(* an event may lack the fields its type promises.  A text is a sequence   *)
(* of tokens; a keyword occurs in it when one of its tokens lower-cases to *)
(* the keyword.                                                            *)
(***************************************************************************)
Texts == { <<"Hello">>, <<"HELP">>, <<"hello", "help">>, <<"thanks">> }

\* String.prototype.toLowerCase on a token
toLowerCase(w) ==
    CASE w = "Hello" -> "hello"
      [] w = "HELP"  -> "help"
      [] OTHER       -> w

\* text.includes(kw), text already lower-cased
includes(text, kw) == \E j \in 1..Len(text) : text[j] = kw

Event(type, hasMessage, mtype, hasText, text) ==
    [type |-> type, hasMessage |-> hasMessage, mtype |-> mtype,
     hasText |-> hasText, text |-> text, replyToken |-> <<0, 0>>]

NoEvent == Event("none", FALSE, "", FALSE, <<>>)
ImageEvent == Event("message", TRUE, "image", FALSE, <<>>)
StickerEvent == Event("message", TRUE, "sticker", FALSE, <<>>)
FollowEvent == Event("follow", FALSE, "", FALSE, <<>>)
\* { type: 'message' } without a message object
NoMessageEvent == Event("message", FALSE, "", FALSE, <<>>)
\* { type: 'message', message: { type: 'text' } } without a text string
NoTextEvent == Event("message", TRUE, "text", FALSE, <<>>)
TextEvent(t) == Event("message", TRUE, "text", TRUE, t)

Events ==
    {ImageEvent, StickerEvent, FollowEvent, NoMessageEvent, NoTextEvent}
        \cup {TextEvent(t) : t \in Texts}

\* the events the dispatch loop routes to a handler
Recognized(e) ==
    e.type = "message" /\ e.hasMessage /\ e.mtype \in {"image", "text"}

(***************************************************************************)
(* Outcomes of the awaited calls.                                          *)
(***************************************************************************)
\* fetch of the image content and arrayBuffer(): the promise rejects, the
\* status is not ok, or the bytes arrive
FetchOutcomes == {"neterr", "notok", "ok"}
\* sharp(...).resize(224, 224).raw().toBuffer(): rejects on bytes that are no
\* image, else yields 224*224*c bytes, c = 3 ("rgb") or another channel count
SharpOutcomes == {"decodeerr", "rgb", "other"}
\* model.predict(tensor): throws or returns the output tensor
PredictOutcomes == {"throw", "ok"}
\* the chat-completions call: fetch rejects, status not ok, body is no JSON,
\* JSON without choices[0].message, message without content, or a text
GptOutcomes == {"neterr", "notok", "badjson", "nochoices", "nocontent", "text"}
\* the reply call of replyToLine
ReplyOutcomes == {"neterr", "notok", "ok"}

(***************************************************************************)
(* A request slot: the locals of one request in flight.  For a webhook     *)
(* delivery n is events.length and i the number of events the loop has     *)
(* taken; the fields from event on belong to the invocation of the handler *)
(* of event i and stay readable after it returns, until the next event is  *)
(* taken.  tensors counts the tensors the invocation created and has not   *)
(* disposed; calls counts the calls it made; fetched is the outcome of its  *)
(* image fetch, error the stage whose exception its catch block caught,     *)
(* replyFailed whether its reply call failed and threw whether an          *)
(* exception left the handler.                                             *)
(***************************************************************************)
\* the JSON body of a status response: its status string and, where the
\* route sends one, its loaded flag (FALSE where the body has no such field)
NoBody == [status |-> "", loaded |-> FALSE]

ZeroCalls == [fetch |-> 0, sharp |-> 0, tensor4d |-> 0, predict |-> 0, gpt |-> 0]

IdleSlot ==
    [kind |-> "none", pc |-> "idle", n |-> 0, i |-> 0, event |-> NoEvent,
     fetched |-> "none", error |-> "none", threw |-> FALSE, tensors |-> 0,
     prediction |-> 0, palmData |-> NoData,
     fortuneResult |-> NoMsg, replies |-> <<>>, replyFailed |-> FALSE,
     calls |-> ZeroCalls, status |-> 0, body |-> NoBody]

Init ==
    /\ boot = "start"
    /\ listening = FALSE
    /\ model = "null"
    /\ loaded = FALSE
    /\ loadCalls = 0
    /\ req = [r \in Requests |-> IdleSlot]

(***************************************************************************)
(* Startup: loadModel().then(() => app.listen(...))                        *)
(***************************************************************************)
\* loadModel() is called and awaits tf.loadLayersModel
LoadModelCall ==
    /\ boot = "start"
    /\ boot' = "loading"
    /\ loadCalls' = loadCalls + 1
    /\ UNCHANGED <<listening, model, loaded, req>>

\* tf.loadLayersModel resolves: model and loaded are set
LoadModelResolve ==
    /\ boot = "loading"
    /\ model' = "layers"
    /\ loaded' = TRUE
    /\ boot' = "resolved"
    /\ UNCHANGED <<listening, loadCalls, req>>

\* loadModel without its try/catch: the rejection ends the process
LoadModelRejectUncaught ==
    /\ boot = "loading"
    /\ boot' = "crashed"
    /\ UNCHANGED <<listening, model, loaded, loadCalls, req>>

\* tf.loadLayersModel rejects: the catch block only logs and loadModel
\* resolves
LoadModelReject ==
    /\ boot = "loading"
    /\ boot' = "rejected"
    /\ UNCHANGED <<listening, model, loaded, loadCalls, req>>

\* app.listen called next to loadModel() instead of in its then-callback
ListenWithoutWaiting ==
    /\ boot = "loading"
    /\ ~listening
    /\ listening' = TRUE
    /\ UNCHANGED <<boot, model, loaded, loadCalls, req>>

\* the then-callback: app.listen
Listen ==
    /\ boot \in {"resolved", "rejected"}
    /\ ~listening
    /\ listening' = TRUE
    /\ UNCHANGED <<boot, model, loaded, loadCalls, req>>

(***************************************************************************)
(* replyToLine and the handlers of the webhook.                            *)
(***************************************************************************)
\* replyToLine(event.replyToken, msg) up to its await: the reply call is made
replyToLine(s, msg) ==
    [s EXCEPT !.replies = Append(@, [replyToken |-> s.event.replyToken, text |-> msg]),
              !.pc = "reply"]

\* a catch block that logs the error and sends nothing
CatchLogOnly(s, err) == [s EXCEPT !.error = err, !.pc = "loop"]

\* the catch block of handlePalmReading: the fixed text is replied
CatchPalmReading(s, err) == replyToLine([s EXCEPT !.error = err], FailureMessage)

\* the pipeline without its loaded check
NoLoadedCheck == FALSE

\* if (!loaded) throw new Error('Model not loaded')
ModelNotLoaded == ~loaded

\* model.predict(tensor) throws when model is null or the forward pass fails
PredictThrows(pr) == model = "null" \/ pr = "throw"

\* getChatGPTFortune(palmData), given the outcome of its one call
getChatGPTFortune(pd, out) ==
    CASE out = "text"      -> GeneratedText(pd)
      [] out = "nocontent" -> Undefined
      [] OTHER             -> FallbackText(pd)

\* the rule order of handleTextMessage on the lower-cased text
replyText(text) ==
    IF includes(text, "konnichi") \/ includes(text, "hajime") \/ includes(text, "hello")
    THEN GreetingMessage
    ELSE IF includes(text, "tsukaikata") \/ includes(text, "herupu") \/ includes(text, "help")
    THEN HelpMessage
    ELSE OtherMessage

\* an exception leaves the for loop: the catch of the route sends 500
WebhookCatch(s) == [s EXCEPT !.threw = TRUE, !.status = 500, !.pc = "responded"]

\* handlePalmReading(event) up to its first await: the image is requested
handlePalmReading(s) == [s EXCEPT !.calls.fetch = @ + 1, !.pc = "fetch"]

\* handleTextMessage(event): event.message.text.toLowerCase() throws when
\* there is no text
handleTextMessage(s) ==
    IF ~s.event.hasText THEN WebhookCatch(s)
    ELSE replyToLine(s, replyText([j \in 1..Len(s.event.text) |-> toLowerCase(s.event.text[j])]))

\* the body of the for loop for the event just taken
Route(s) ==
    IF s.event.type = "message"
    THEN IF ~s.event.hasMessage THEN WebhookCatch(s)
         ELSE IF s.event.mtype = "image" THEN handlePalmReading(s)
         ELSE IF s.event.mtype = "text" THEN handleTextMessage(s)
         ELSE s
    ELSE s

\* POST /line-webhook arrives: const events = req.body.events || []
WebhookArrive(r) ==
    /\ listening
    /\ req[r].pc = "idle"
    /\ \E len \in 0..MaxBatch :
         req' = [req EXCEPT ![r] = [IdleSlot EXCEPT !.kind = "webhook", !.pc = "loop", !.n = len]]
    /\ UNCHANGED <<boot, listening, model, loaded, loadCalls>>

\* for (const event of events): the next event is taken and routed
Dispatch(r) ==
    /\ req[r].kind = "webhook"
    /\ req[r].pc = "loop"
    /\ req[r].i < req[r].n
    /\ \E e \in Events :
         LET s == req[r]
             taken == [IdleSlot EXCEPT !.kind = "webhook", !.pc = "loop", !.n = s.n,
                                        !.i = s.i + 1,
                                        !.event = [e EXCEPT !.replyToken = <<r, s.i + 1>>]]
         IN req' = [req EXCEPT ![r] = Route(taken)]
    /\ UNCHANGED <<boot, listening, model, loaded, loadCalls>>

\* the fetch without the check of imageResponse.ok
FetchThrowsNoOkCheck(out) == out = "neterr"

\* await fetch(...) rejects, or if (!imageResponse.ok) throw
FetchThrows(out) == out \in {"neterr", "notok"}

\* the image fetch settles; on success sharp is called
ImageFetchSettle(r) ==
    /\ req[r].kind = "webhook"
    /\ req[r].pc = "fetch"
    /\ \E out \in FetchOutcomes :
         LET s == [req[r] EXCEPT !.fetched = out] IN
         req' = [req EXCEPT ![r] =
                   IF FetchThrows(out)
                   THEN CatchPalmReading(s, "fetch")
                   ELSE [s EXCEPT !.calls.sharp = @ + 1, !.pc = "sharp"]]
    /\ UNCHANGED <<boot, listening, model, loaded, loadCalls>>

\* sharp settles; then the loaded check, tf.tensor4d and model.predict run
AfterSharp(s, out, pr) ==
    IF out = "decodeerr" THEN CatchPalmReading(s, "decode")
    ELSE IF ModelNotLoaded THEN CatchPalmReading(s, "notloaded")
    ELSE IF out # "rgb" THEN CatchPalmReading(s, "shape")
    ELSE LET t == [s EXCEPT !.tensors = @ + 1, !.calls.tensor4d = @ + 1,
                            !.calls.predict = @ + 1]
         IN IF PredictThrows(pr) THEN CatchPalmReading(t, "predict")
            ELSE [t EXCEPT !.tensors = @ + 1, !.pc = "data"]

SharpSettle(r) ==
    /\ req[r].kind = "webhook"
    /\ req[r].pc = "sharp"
    /\ \E out \in SharpOutcomes, pr \in PredictOutcomes :
         req' = [req EXCEPT ![r] = AfterSharp(req[r], out, pr)]
    /\ UNCHANGED <<boot, listening, model, loaded, loadCalls>>

\* await result.data() rejects (~ok), or yields the score k / ScoreDen: then
\* palmData is built and getChatGPTFortune makes its call
AfterData(s, ok, k) ==
    IF ~ok THEN CatchPalmReading(s, "data")
    ELSE [s EXCEPT !.prediction = k, !.palmData = palmData(k),
                   !.calls.gpt = @ + 1, !.pc = "gpt"]

PredictDataSettle(r) ==
    /\ req[r].kind = "webhook"
    /\ req[r].pc = "data"
    /\ \/ req' = [req EXCEPT ![r] = AfterData(req[r], FALSE, 0)]
       \/ \E k \in Scores :
            req' = [req EXCEPT ![r] = AfterData(req[r], TRUE, k)]
    /\ UNCHANGED <<boot, listening, model, loaded, loadCalls>>

\* a getChatGPTFortune that makes its call once more after a failed call
FortuneRetries(s, out) ==
    IF out \in {"neterr", "notok"} /\ s.calls.gpt < 2
    THEN [s EXCEPT !.calls.gpt = @ + 1]
    ELSE LET f == getChatGPTFortune(s.palmData, out)
         IN replyToLine([s EXCEPT !.fortuneResult = f], f)

\* a handlePalmReading that keeps palmData in a variable of the module instead
\* of a const of the invocation: the fortune is built from the palmData of
\* whichever invocation wrote it last (here: the highest request holding one)
FortuneFromModuleVariable(s, out) ==
    LET holders == {q \in Requests : req[q].palmData.success}
        last == CHOOSE q \in holders : \A p \in holders : q >= p
        f == getChatGPTFortune(req[last].palmData, out)
    IN replyToLine([s EXCEPT !.fortuneResult = f], f)

\* the one call of getChatGPTFortune has settled with out: the function
\* returns, and handlePalmReading replies with what it returned
FortuneReturns(s, out) ==
    LET f == getChatGPTFortune(s.palmData, out)
    IN replyToLine([s EXCEPT !.fortuneResult = f], f)

\* getChatGPTFortune returns and replyToLine(event.replyToken, fortuneResult)
ChatGPTSettle(r) ==
    /\ req[r].kind = "webhook"
    /\ req[r].pc = "gpt"
    /\ \E out \in GptOutcomes :
         req' = [req EXCEPT ![r] = FortuneReturns(req[r], out)]
    /\ UNCHANGED <<boot, listening, model, loaded, loadCalls>>

\* a replyToLine without its try/catch: a failed reply call throws, into the
\* catch block of handlePalmReading when the reply was its success reply and
\* out of the handler otherwise
ReplyRethrows(s, out) ==
    IF out = "ok" THEN [s EXCEPT !.pc = "loop"]
    ELSE IF s.event.mtype = "image" /\ s.error = "none"
    THEN CatchPalmReading([s EXCEPT !.replyFailed = TRUE], "reply")
    ELSE WebhookCatch([s EXCEPT !.replyFailed = TRUE])

\* the reply call has settled with out: on a rejection or a status that is
\* not ok the catch block of replyToLine only logs, so whatever the outcome
\* replyToLine resolves and the handler returns to the loop
ReplySettled(s, out) == [s EXCEPT !.replyFailed = out # "ok", !.pc = "loop"]

ReplySettle(r) ==
    /\ req[r].kind = "webhook"
    /\ req[r].pc = "reply"
    /\ \E out \in ReplyOutcomes :
         req' = [req EXCEPT ![r] = ReplySettled(req[r], out)]
    /\ UNCHANGED <<boot, listening, model, loaded, loadCalls>>

\* a route that starts the handlers without awaiting them: 200 is sent while
\* events are not taken yet or a handler still runs
WebhookRespondWithoutAwait(r) ==
    /\ req[r].kind = "webhook"
    /\ req[r].pc \in {"loop", "fetch", "sharp", "data", "gpt", "reply"}
    /\ req' = [req EXCEPT ![r] = [@ EXCEPT !.status = 200, !.pc = "responded"]]
    /\ UNCHANGED <<boot, listening, model, loaded, loadCalls>>

\* the loop is over: res.sendStatus(200)
WebhookRespond(r) ==
    /\ req[r].kind = "webhook"
    /\ req[r].pc = "loop"
    /\ req[r].i = req[r].n
    /\ req' = [req EXCEPT ![r] = [@ EXCEPT !.status = 200, !.pc = "responded"]]
    /\ UNCHANGED <<boot, listening, model, loaded, loadCalls>>

(***************************************************************************)
(* POST /analyze-palm                                                      *)
(***************************************************************************)
AnalyzeRespond(s, code) == [s EXCEPT !.status = code, !.pc = "responded"]

\* the handler up to its first await: the loaded check, the file check and
\* the call of sharp
analyzePalm(s, hasFile) ==
    IF ~loaded THEN AnalyzeRespond(s, 503)
    ELSE IF ~hasFile THEN AnalyzeRespond(s, 400)
    ELSE [s EXCEPT !.calls.sharp = @ + 1, !.pc = "sharp"]

AnalyzeArrive(r) ==
    /\ listening
    /\ req[r].pc = "idle"
    /\ \E hasFile \in BOOLEAN :
         req' = [req EXCEPT ![r] = analyzePalm([IdleSlot EXCEPT !.kind = "analyze"], hasFile)]
    /\ UNCHANGED <<boot, listening, model, loaded, loadCalls>>

\* an /analyze-palm that makes three channels of whatever sharp decoded
AnalyzeAfterSharpAnyChannels(s, out, pr) ==
    IF out = "decodeerr" THEN AnalyzeRespond([s EXCEPT !.error = "decode"], 500)
    ELSE LET t == [s EXCEPT !.tensors = @ + 1, !.calls.tensor4d = @ + 1,
                            !.calls.predict = @ + 1]
         IN IF PredictThrows(pr) THEN AnalyzeRespond([t EXCEPT !.error = "predict"], 500)
            ELSE [t EXCEPT !.tensors = @ + 1, !.pc = "data"]

\* sharp settles; then tf.tensor4d and model.predict run
AnalyzeAfterSharp(s, out, pr) ==
    IF out = "decodeerr" THEN AnalyzeRespond([s EXCEPT !.error = "decode"], 500)
    ELSE IF out # "rgb" THEN AnalyzeRespond([s EXCEPT !.error = "shape"], 500)
    ELSE LET t == [s EXCEPT !.tensors = @ + 1, !.calls.tensor4d = @ + 1,
                            !.calls.predict = @ + 1]
         IN IF PredictThrows(pr) THEN AnalyzeRespond([t EXCEPT !.error = "predict"], 500)
            ELSE [t EXCEPT !.tensors = @ + 1, !.pc = "data"]

AnalyzeSharpSettle(r) ==
    /\ req[r].kind = "analyze"
    /\ req[r].pc = "sharp"
    /\ \E out \in SharpOutcomes, pr \in PredictOutcomes :
         req' = [req EXCEPT ![r] = AnalyzeAfterSharp(req[r], out, pr)]
    /\ UNCHANGED <<boot, listening, model, loaded, loadCalls>>

\* await result.data() rejects (~ok), or yields the score k / ScoreDen: then
\* res.json(...) and tensor.dispose()
AnalyzeAfterData(s, ok, k) ==
    IF ~ok THEN AnalyzeRespond([s EXCEPT !.error = "data"], 500)
    ELSE AnalyzeRespond([s EXCEPT !.prediction = k, !.palmData = palmData(k),
                                  !.tensors = @ - 1], 200)

AnalyzeDataSettle(r) ==
    /\ req[r].kind = "analyze"
    /\ req[r].pc = "data"
    /\ \/ req' = [req EXCEPT ![r] = AnalyzeAfterData(req[r], FALSE, 0)]
       \/ \E k \in Scores :
            req' = [req EXCEPT ![r] = AnalyzeAfterData(req[r], TRUE, k)]
    /\ UNCHANGED <<boot, listening, model, loaded, loadCalls>>

(***************************************************************************)
(* GET / and GET /health                                                   *)
(***************************************************************************)
\* a /health that does not look at loaded
HealthAlwaysHealthy == "healthy"

\* loaded ? 'healthy' : 'loading'
healthStatus == IF loaded THEN "healthy" ELSE "loading"

\* GET /: res.json({ status: 'OK', loaded })
RootGet(r) ==
    /\ listening
    /\ req[r].pc = "idle"
    /\ req' = [req EXCEPT ![r] =
                 [IdleSlot EXCEPT !.kind = "root", !.pc = "responded", !.status = 200,
                                  !.body = [status |-> "OK", loaded |-> loaded]]]
    /\ UNCHANGED <<boot, listening, model, loaded, loadCalls>>

\* GET /health: res.json({ status: loaded ? 'healthy' : 'loading' })
HealthGet(r) ==
    /\ listening
    /\ req[r].pc = "idle"
    /\ req' = [req EXCEPT ![r] =
                 [IdleSlot EXCEPT !.kind = "health", !.pc = "responded", !.status = 200,
                                  !.body = [status |-> healthStatus, loaded |-> FALSE]]]
    /\ UNCHANGED <<boot, listening, model, loaded, loadCalls>>

\* the response is out and the request is over
Release(r) ==
    /\ req[r].pc = "responded"
    /\ req' = [req EXCEPT ![r] = IdleSlot]
    /\ UNCHANGED <<boot, listening, model, loaded, loadCalls>>

Next ==
    \/ LoadModelCall
    \/ LoadModelResolve
    \/ LoadModelReject
    \/ Listen
    \/ \E r \in Requests : WebhookArrive(r)
    \/ \E r \in Requests : Dispatch(r)
    \/ \E r \in Requests : ImageFetchSettle(r)
    \/ \E r \in Requests : SharpSettle(r)
    \/ \E r \in Requests : PredictDataSettle(r)
    \/ \E r \in Requests : ChatGPTSettle(r)
    \/ \E r \in Requests : ReplySettle(r)
    \/ \E r \in Requests : WebhookRespond(r)
    \/ \E r \in Requests : AnalyzeArrive(r)
    \/ \E r \in Requests : AnalyzeSharpSettle(r)
    \/ \E r \in Requests : AnalyzeDataSettle(r)
    \/ \E r \in Requests : RootGet(r)
    \/ \E r \in Requests : HealthGet(r)
    \/ \E r \in Requests : Release(r)

Spec == Init /\ [][Next]_vars

\* the steps of request r that need no answer from another host: the
\* continuation of a handler after local work (the loop, sharp, predict and
\* data(), the response), which the event loop runs once it is ready
LocalStep(r) ==
    \/ Dispatch(r)
    \/ SharpSettle(r)
    \/ PredictDataSettle(r)
    \/ WebhookRespond(r)
    \/ AnalyzeSharpSettle(r)
    \/ AnalyzeDataSettle(r)
    \/ Release(r)

\* the fetch calls to the LINE hosts (image content, reply) settle
LineStep(r) == ImageFetchSettle(r) \/ ReplySettle(r)

\* Spec with the progress the runtime gives: startup and every local step are
\* taken once they are enabled, and the LINE hosts answer.  The call of
\* getChatGPTFortune is awaited without a timeout or an abort signal, so
\* nothing on the side of the program makes it settle: no fairness for it.
FairSpec ==
    /\ Spec
    /\ WF_vars(LoadModelCall \/ LoadModelResolve \/ LoadModelReject \/ Listen)
    /\ \A r \in Requests : WF_vars(LocalStep(r)) /\ WF_vars(LineStep(r))

(***************************************************************************)
(* Properties.                                                             *)
(***************************************************************************)
Webhook(s) == s.kind = "webhook"

\* the handler of event i of the delivery has returned or thrown
Returned(s) == Webhook(s) /\ s.i >= 1 /\ s.pc \in {"loop", "responded"}

\* event i of the delivery is an image event: handlePalmReading runs or ran
ImageInvocation(s) == Webhook(s) /\ s.i >= 1 /\ Recognized(s.event) /\ s.event.mtype = "image"

\* event i of the delivery is a text event with a text
TextInvocation(s) ==
    Webhook(s) /\ s.i >= 1 /\ Recognized(s.event) /\ s.event.mtype = "text" /\ s.event.hasText

\* the reply of text msg to the event of slot s
Reply(s, msg) == [replyToken |-> s.event.replyToken, text |-> msg]

\* the text-generation call of the invocation failed
GptFailed(s) == s.calls.gpt > 0 /\ s.fortuneResult.kind \in {"fallback", "undefined"}

\* /analyze-palm has answered
AnalyzeDone(s) == s.kind = "analyze" /\ s.pc = "responded"

\* C1 as claimed: an image event with a failure at any stage before the reply,
\* fortune generation included, is answered by the fixed failure text exactly
\* once and by nothing else, and handlePalmReading does not throw.
C1_AnyStageFailureGetsFixedText ==
    \A r \in Requests :
        LET s == req[r] IN
        (ImageInvocation(s) /\ Returned(s) /\ (s.error # "none" \/ GptFailed(s)))
            => (s.replies = <<Reply(s, FailureMessage)>> /\ ~s.threw)

\* C1 amended: handlePalmReading never throws and never replies twice; once it
\* has returned, a failure of a stage before fortune generation (fetch, decode,
\* tensor shape, loaded check, predict, data) was answered by the fixed failure
\* text alone, and otherwise the one reply is the value getChatGPTFortune
\* returned, also when the text-generation call failed.
C1_FailureBeforeFortuneGetsFixedText ==
    \A r \in Requests :
        LET s == req[r] IN
        ImageInvocation(s) =>
            /\ ~s.threw
            /\ Len(s.replies) <= 1
            /\ Returned(s) =>
                 IF s.error # "none"
                 THEN s.replies = <<Reply(s, FailureMessage)>>
                 ELSE /\ s.calls.gpt = 1
                      /\ s.fortuneResult # FailureMessage
                      /\ s.replies = <<Reply(s, s.fortuneResult)>>

\* an image event whose predict call threw has been answered
C1_Witness ==
    \E r \in Requests :
        LET s == req[r] IN
        /\ ImageInvocation(s) /\ Returned(s)
        /\ s.error = "predict"
        /\ s.replies = <<Reply(s, FailureMessage)>>

\* C2: when the delivery is answered, the loop has taken every event of the
\* events array, whatever happened to the events before.
C2_LaterEventsDispatched ==
    \A r \in Requests :
        LET s == req[r] IN
        (Webhook(s) /\ s.pc = "responded") => s.i = s.n

\* C3: once the handling of an event is over, a message event of type image or
\* text has exactly one reply attempt, with its replyToken, any other event has
\* none, and no event raised an error.
C3_OneReplyPerEvent ==
    \A r \in Requests :
        LET s == req[r] IN
        Returned(s) =>
            /\ ~s.threw
            /\ IF s.event.type = "message" /\ s.event.mtype \in {"image", "text"}
               THEN Len(s.replies) = 1 /\ s.replies[1].replyToken = s.event.replyToken
               ELSE s.replies = <<>>

\* C4: what getChatGPTFortune returned is the generated text or the fallback
\* text built from palmData, never anything else.
C4_GeneratedOrFallback ==
    \A r \in Requests :
        LET s == req[r] IN
        (ImageInvocation(s) /\ s.calls.gpt > 0 /\ s.pc # "gpt")
            => s.fortuneResult \in {GeneratedText(s.palmData), FallbackText(s.palmData)}

\* C5: a finished pipeline invocation (handlePalmReading returned, or
\* /analyze-palm answered) has left no tensor undisposed.
C5_TensorsReleased ==
    \A r \in Requests :
        LET s == req[r] IN
        ((ImageInvocation(s) /\ Returned(s)) \/ AnalyzeDone(s)) => s.tensors = 0

\* C6 as claimed: after a failed load every finished image analysis failed with
\* the model-not-loaded error (the webhook's "Model not loaded", the 503 of
\* /analyze-palm) and without a predict call.
C6_EveryAttemptModelNotLoaded ==
    \A r \in Requests :
        LET s == req[r] IN
        boot = "rejected" =>
            /\ s.calls.predict = 0
            /\ (ImageInvocation(s) /\ Returned(s)) => s.error = "notloaded"
            /\ AnalyzeDone(s) => s.status = 503

C6_StaysNotLoaded ==
    boot = "rejected" => (boot' = "rejected" /\ ~loaded' /\ loadCalls' = loadCalls)

C6_NoPredict ==
    /\ loadCalls <= 1
    /\ boot = "rejected" =>
         /\ ~loaded
         /\ model = "null"
         /\ \A r \in Requests :
              LET s == req[r] IN
              /\ s.calls.predict = 0 /\ s.calls.tensor4d = 0 /\ s.tensors = 0
              /\ AnalyzeDone(s) => (s.status = 503 /\ s.calls.sharp = 0)
              /\ (ImageInvocation(s) /\ Returned(s)) =>
                   /\ s.replies = <<Reply(s, FailureMessage)>>
                   /\ s.error \in {"fetch", "decode", "notloaded"}
                   /\ s.error = "fetch" <=> s.fetched # "ok"

\* C6 amended: after a failed load, loaded stays false and loadModel is not
\* called again, and every image analysis fails without creating a tensor or
\* calling model.predict: /analyze-palm at once with 503, a webhook image event
\* with the fixed failure reply, by the model-not-loaded error only when its
\* fetch and decode succeeded and by the fetch or decode error otherwise.
C6_NotLoadedPermanentNoPredict == [] C6_NoPredict /\ [][C6_StaysNotLoaded]_vars

\* after a failed load an image event got as far as the loaded check
C6_Witness ==
    /\ boot = "rejected"
    /\ \E r \in Requests :
         LET s == req[r] IN
         ImageInvocation(s) /\ Returned(s) /\ s.error = "notloaded"

C7_ListeningAfterLoad ==
    /\ loadCalls <= 1
    /\ listening => (boot \in {"resolved", "rejected"} /\ loadCalls = 1)
    /\ loaded <=> boot = "resolved"
    /\ \A r \in Requests : req[r].pc # "idle" => listening

C7_NoReload ==
    listening =>
        /\ listening'
        /\ boot' = boot
        /\ model' = model
        /\ loaded' = loaded
        /\ loadCalls' = loadCalls

\* C7: loadModel is called once; the server listens, and handles requests, only
\* after that call has settled; once it listens, model and loaded are not
\* written and loadModel is not called.
C7_LoadedOnceBeforeTraffic == [] C7_ListeningAfterLoad /\ [][C7_NoReload]_vars

\* a request runs the loaded model
C7_Witness ==
    /\ listening /\ loaded /\ model = "layers"
    /\ \E r \in Requests : req[r].pc = "data"

\* C8: a failed load leaves the process running and about to listen or
\* listening; in that state /analyze-palm answers 503, a webhook image event
\* gets the fixed failure reply and a text event its canned reply.
C8_DegradedButRunning ==
    /\ boot \in {"start", "loading", "resolved", "rejected"}
    /\ boot \in {"resolved", "rejected"} => (listening \/ ENABLED Listen)
    /\ boot = "rejected" =>
         \A r \in Requests :
             LET s == req[r] IN
             /\ AnalyzeDone(s) => s.status = 503
             /\ (ImageInvocation(s) /\ Returned(s)) =>
                  (s.replies = <<Reply(s, FailureMessage)>> /\ ~s.threw)
             /\ (TextInvocation(s) /\ Returned(s)) =>
                  /\ ~s.threw
                  /\ Len(s.replies) = 1
                  /\ s.replies[1].replyToken = s.event.replyToken
                  /\ s.replies[1].text \in {GreetingMessage, HelpMessage, OtherMessage}

\* after a failed load the server listens and has rejected an /analyze-palm
C8_Witness ==
    /\ boot = "rejected" /\ listening
    /\ \E r \in Requests : AnalyzeDone(req[r]) /\ req[r].status = 503

\* the classification pd of the score k / ScoreDen is as the decision rule says
DecisionRule(k, pd) ==
    LET m == Max(k, ScoreDen - k) IN
    /\ pd.handEn = "right" <=> 2 * k > ScoreDen
    /\ pd.handEn = "left" <=> 2 * k <= ScoreDen
    /\ pd.hand = "migite" <=> pd.handEn = "right"
    /\ pd.hand = "hidarite" <=> pd.handEn = "left"
    /\ pd.confidence \in 50..100
    /\ 200 * m - ScoreDen < 2 * pd.confidence * ScoreDen
    /\ 2 * pd.confidence * ScoreDen <= 200 * m + ScoreDen

\* C9: for every classification a pipeline has computed from a score of the
\* grid, the label is right iff score > 0.5 (left at 0.5), the confidence is
\* round(max(score, 1 - score) * 100), within 50..100, and the label differs
\* from the label of 1 - score unless score = 0.5.
C9_DecisionRule ==
    \A r \in Requests :
        LET s == req[r] IN
        s.palmData.success =>
            /\ DecisionRule(s.prediction, s.palmData)
            /\ 2 * s.prediction # ScoreDen =>
                 s.palmData.handEn # palmData(ScoreDen - s.prediction).handEn

\* a pipeline has classified the score 0.5
C9_Witness ==
    \E r \in Requests :
        LET s == req[r] IN
        /\ s.palmData.success
        /\ 2 * s.prediction = ScoreDen
        /\ s.palmData.handEn = "left"
        /\ s.palmData.confidence = 50

\* C10: an image event whose fetch failed made no other call, created no
\* tensor and no palmData, and its one reply is the fixed failure text.
C10_FetchFailureOnlyReplies ==
    \A r \in Requests :
        LET s == req[r] IN
        (ImageInvocation(s) /\ s.fetched \in {"neterr", "notok"}) =>
            /\ s.calls = [ZeroCalls EXCEPT !.fetch = 1]
            /\ s.tensors = 0
            /\ s.palmData = NoData
            /\ s.fortuneResult = NoMsg
            /\ s.replies = <<Reply(s, FailureMessage)>>
            /\ ~s.threw

\* an image event whose fetch came back not ok has been answered
C10_Witness ==
    \E r \in Requests :
        LET s == req[r] IN
        /\ ImageInvocation(s) /\ Returned(s)
        /\ s.fetched = "notok"
        /\ s.replies = <<Reply(s, FailureMessage)>>

\* C11: an image event whose fetch, preprocessing and classification succeeded
\* and whose text-generation call failed is answered by the fallback text built
\* from its classification; the fixed failure text is replied only when a stage
\* before fortune generation failed.
C11_GptFailureGetsFallback ==
    \A r \in Requests :
        LET s == req[r] IN
        (ImageInvocation(s) /\ Returned(s)) =>
            /\ (s.error = "none" /\ GptFailed(s)) =>
                 s.replies = <<Reply(s, FallbackText(s.palmData))>>
            /\ (\E j \in 1..Len(s.replies) : s.replies[j].text = FailureMessage) =>
                 s.error # "none"

\* C12: the call of getChatGPTFortune is bounded also when the service never
\* answers: an image event that waits for the text-generation call eventually
\* gets its reply attempt, and every webhook delivery eventually gets its HTTP
\* response.
C12_FortuneCallBounded ==
    \A r \in Requests :
        /\ (req[r].pc = "gpt") ~> (req[r].pc # "gpt" /\ Len(req[r].replies) = 1)
        /\ Webhook(req[r]) ~> (req[r].pc = "responded")

C13_AtMostOneCall ==
    \A r \in Requests :
        LET s == req[r] IN
        /\ s.calls.gpt <= 1
        /\ s.calls.gpt = 1 <=> (ImageInvocation(s) /\ s.palmData.success)
        /\ s.fortuneResult # NoMsg => (s.calls.gpt = 1 /\ s.pc # "gpt")
        /\ s.pc = "gpt" => (s.calls.gpt = 1 /\ s.fortuneResult = NoMsg)

\* the step in which getChatGPTFortune returns makes no call but the reply
C13_ReturnMakesNoCall ==
    \A r \in Requests :
        (req[r].pc = "gpt" /\ req'[r] # req[r]) =>
            /\ req'[r].calls = req[r].calls
            /\ req'[r].fortuneResult # NoMsg
            /\ req'[r].pc = "reply"

\* C13: an invocation of getChatGPTFortune makes exactly one outbound call: the
\* call is made when the function is invoked, is not repeated when it fails,
\* and the function returns, the fallback included, without another call.
C13_OneFortuneCall == [] C13_AtMostOneCall /\ [][C13_ReturnMakesNoCall]_vars

\* a failed call has ended in the fallback text
C13_Witness ==
    \E r \in Requests :
        LET s == req[r] IN
        /\ ImageInvocation(s) /\ Returned(s)
        /\ s.calls.gpt = 1
        /\ s.fortuneResult = FallbackText(s.palmData)

\* C14: a reply call that failed (rejection or status not ok) is swallowed by
\* replyToLine: nothing is thrown, the event keeps its one reply attempt (no
\* retry, no failure text after a fortune reply), and the loop goes on: the
\* next event can be taken, or the delivery is answered 200.
C14_ReplyFailureSwallowed ==
    \A r \in Requests :
        LET s == req[r] IN
        s.replyFailed =>
            /\ ~s.threw
            /\ s.pc \in {"loop", "responded"}
            /\ Len(s.replies) = 1
            /\ s.replies[1].replyToken = s.event.replyToken
            /\ (ImageInvocation(s) /\ s.calls.gpt = 1) =>
                 (s.error = "none" /\ s.replies[1].text = s.fortuneResult
                  /\ s.replies[1].text # FailureMessage)
            /\ (s.pc = "loop" /\ s.i < s.n) => ENABLED Dispatch(r)
            /\ (s.pc = "loop" /\ s.i = s.n) => ENABLED WebhookRespond(r)
            /\ s.pc = "responded" => (s.status = 200 /\ s.i = s.n)

\* the reply to the first of two events failed and the loop is about to take
\* the second
C14_Witness ==
    \E r \in Requests :
        LET s == req[r] IN
        /\ ImageInvocation(s) /\ s.pc = "loop"
        /\ s.replyFailed /\ s.calls.gpt = 1
        /\ s.i = 1 /\ s.n = 2

\* one of the keywords kws occurs in text, whatever the case of its letters
HasKeyword(text, kws) == \E j \in 1..Len(text) : toLowerCase(text[j]) \in kws

\* C15: a text message event, whatever its message holds, is answered without
\* an error by exactly one canned message: the greeting if a greeting keyword
\* occurs in it, else the help text if a help keyword occurs, else the other
\* text.
C15_TextAlwaysAnswered ==
    \A r \in Requests :
        LET s == req[r] IN
        (Webhook(s) /\ s.i >= 1 /\ Recognized(s.event) /\ s.event.mtype = "text") =>
            /\ ~s.threw
            /\ s.replies =
                 <<Reply(s, IF HasKeyword(s.event.text, {"konnichi", "hajime", "hello"})
                            THEN GreetingMessage
                            ELSE IF HasKeyword(s.event.text, {"tsukaikata", "herupu", "help"})
                            THEN HelpMessage
                            ELSE OtherMessage)>>

\* C16: while the server answers requests, /health would report 'healthy' and
\* / loaded true exactly when the model was loaded successfully, and 'loading'
\* and false otherwise (the load failed); every response of the two routes
\* that is out says so.
C16_HealthReflectsLoad ==
    /\ listening =>
         /\ healthStatus \in {"healthy", "loading"}
         /\ healthStatus = "healthy" <=> (boot = "resolved" /\ model = "layers")
         /\ healthStatus = "loading" <=> boot = "rejected"
         /\ loaded <=> boot = "resolved"
    /\ \A r \in Requests :
         LET s == req[r] IN
         /\ s.kind = "health" =>
              /\ s.pc = "responded" /\ s.status = 200
              /\ s.body.status = (IF boot = "resolved" THEN "healthy" ELSE "loading")
         /\ s.kind = "root" =>
              /\ s.pc = "responded" /\ s.status = 200
              /\ s.body.status = "OK"
              /\ s.body.loaded <=> boot = "resolved"

\* after a failed load /health has answered 'loading' and / loaded false
C16_Witness ==
    /\ boot = "rejected"
    /\ \E a, b \in Requests :
         /\ req[a].kind = "health" /\ req[a].body.status = "loading"
         /\ req[b].kind = "root" /\ ~req[b].body.loaded

C17_OwnTokenOwnClassification ==
    \A r \in Requests :
        LET s == req[r] IN
        Webhook(s) =>
            \A j \in 1..Len(s.replies) :
                LET m == s.replies[j] IN
                /\ m.replyToken = <<r, s.i>>
                /\ m.replyToken = s.event.replyToken
                /\ m.text.kind \in {"generated", "fallback"} =>
                     /\ m.text = s.fortuneResult
                     /\ DecisionRule(s.prediction, s.palmData)
                     /\ m.text.hand = s.palmData.hand
                     /\ m.text.confidence = s.palmData.confidence
                     /\ m.text.reading = s.palmData.palmReading

\* a step of one request leaves the locals of every other request alone, and
\* no step of a request writes model or loaded
C17_StepsAreLocal ==
    \A r \in Requests :
        req'[r] # req[r] =>
            /\ \A q \in Requests \ {r} : req'[q] = req[q]
            /\ model' = model
            /\ loaded' = loaded

\* C17: requests in flight at once share nothing that is written but their own
\* locals: under every interleaving each reply carries the replyToken of the
\* event it answers and, when it is a fortune, the classification computed
\* from the score of that event's image.
C17_NoCrossTalk == [] C17_OwnTokenOwnClassification /\ [][C17_StepsAreLocal]_vars

\* two deliveries are in flight, both with a classified image, the hands
\* differ, and the first has replied with its fortune while the second still
\* waits for its own
C17_Witness ==
    \E a, b \in Requests :
        /\ a # b
        /\ ImageInvocation(req[a]) /\ ImageInvocation(req[b])
        /\ req[a].pc = "reply" /\ req[b].pc = "gpt"
        /\ req[a].replies = <<Reply(req[a], GeneratedText(req[a].palmData))>>
        /\ req[a].palmData.success /\ req[b].palmData.success
        /\ req[a].palmData.hand # req[b].palmData.hand

C18_StatusAfterLoop ==
    \A r \in Requests :
        LET s == req[r] IN
        Webhook(s) =>
            /\ s.i <= s.n
            /\ s.status \in {0, 200, 500}
            /\ s.status # 0 <=> s.pc = "responded"
            /\ s.status = 500 <=> s.threw
            /\ s.status = 200 =>
                 /\ s.i = s.n
                 /\ (s.i >= 1 /\ Recognized(s.event)) => Len(s.replies) = 1
            /\ (s.pc = "loop" /\ s.i = s.n) => ENABLED WebhookRespond(r)

\* the loop takes the events one by one, the next only when the handler of
\* the one before has returned (its reply call has settled), and a delivery
\* that has its status only ends
C18_InOrder ==
    \A r \in Requests :
        LET s == req[r] IN
        (Webhook(s) /\ req'[r] # s) =>
            /\ s.status # 0 => req'[r] = IdleSlot
            /\ s.status = 0 =>
                 /\ Webhook(req'[r])
                 /\ req'[r].n = s.n
                 /\ req'[r].i \in {s.i, s.i + 1}
                 /\ req'[r].i = s.i + 1 =>
                      /\ s.pc = "loop"
                      /\ req'[r].event.replyToken = <<r, s.i + 1>>
                      /\ (s.i >= 1 /\ Recognized(s.event)) => Len(s.replies) = 1

WebhookPipeline(s, img, pr, ok, k) ==
    LET s1 == AfterSharp(s, img, pr)
    IN IF s1.pc = "data" THEN AfterData(s1, ok, k) ELSE s1

\* the run of /analyze-palm on a file with the same bytes and outcomes
AnalyzePipeline(img, pr, ok, k) ==
    LET s0 == analyzePalm([IdleSlot EXCEPT !.kind = "analyze"], TRUE)
        s1 == IF s0.pc = "sharp" THEN AnalyzeAfterSharp(s0, img, pr) ELSE s0
    IN IF s1.pc = "data" THEN AnalyzeAfterData(s1, ok, k) ELSE s1

\* the calls of the pipeline stages an invocation made
StageCalls(s) == <<s.calls.sharp, s.calls.tensor4d, s.calls.predict>>

\* the outcomes of data(): a rejection, or one of the scores
DataOutcomes == {<<FALSE, 0>>} \cup {<<TRUE, k>> : k \in Scores}

====
